---- MODULE Spec2Model ----
(***************************************************************************)
(* Pagination state machine of react-native-infinite-scroll.               *)
(*                                                                         *)
(* Two objects of the repository are modelled, one per behaviour:          *)
(*   - the useInfiniteScroll hook (page mode and cursor mode), with its    *)
(*     React state cell, the isLoadingRef reentrancy guard, the            *)
(*     isMountedRef disposal flag and the fetches it has outstanding;      *)
(*   - a StateManagerService driven by LoadMoreUseCase.execute and by      *)
(*     direct calls of setInitialData / addPage / reset.                   *)
(* Which of the two a behaviour exercises is chosen in Init (instance).    *)
(*                                                                         *)
(* Scheduling assumptions, both from JavaScript / React:                   *)
(*   - code between two awaits runs atomically, so an operation is one     *)
(*     action up to its fetch call and one action from the settlement of   *)
(*     the fetch to its finally block;                                     *)
(*   - the component re-renders after every state write before the next    *)
(*     event is delivered, so a callback invoked by the caller closes over *)
(*     the current state; the state an operation captured when it was      *)
(*     invoked stays with the operation (field snap of its record);        *)
(*   - the configuration object is stable, so the autoLoad effect runs     *)
(*     once, with the mount effect.                                        *)
(***************************************************************************)
EXTENDS Integers, Sequences, FiniteSets, TLC

\* ------------------------------------------------------------------ bounds
\* config.pageSize of the modelled configurations.
PageSize == 2
\* At most this many non-empty pages are accumulated: a fetch issued with
\* MaxPages pages already held is explored only as rejecting or as returning
\* the empty batch that ends a page-mode list.
MaxPages == 2
\* A behaviour holds at most this many calls that re-initialise the state
\* (hook: reset(); service: reset() and setInitialData()); a reset() that
\* directly follows a reset() is not counted. Each of them lets one more
\* operation start, so at most MaxResets + 1 fetches are ever outstanding at
\* once.
MaxResets == 1

\* Thresholds explored run from MaxExcess below 0 to MaxExcess above 100.
MaxExcess == 2

\* The fixed collections paged through by getPageSlice hold 0..MaxItems items.
MaxItems == 7

\* ------------------------------------------------------------------ values
\* JavaScript null (state.error, state.cursor, nextCursor).
Null == "<null>"

\* A batch a fetch may return: 0..PageSize items, items are 1, 2, ...
Batch(n) == [i \in 1..n |-> i]
Batches == {Batch(n) : n \in 0..PageSize}

\* Continuation tokens a cursor fetch may return as nextCursor.
Tokens == {"tok1", "tok2"}

\* First argument handed to the caller-supplied fetch: a number, a string or
\* undefined.
Num(n) == [t |-> "number", n |-> n, s |-> ""]
Str(s) == [t |-> "string", n |-> 0, s |-> s]
Undefined == [t |-> "undefined", n |-> 0, s |-> ""]

\* Values a caller-supplied fetch may reject with: an Error instance carrying
\* a message, or a value that is not an Error (here a plain string).
Rejections ==
  { [isError |-> TRUE, message |-> "network down"],
    [isError |-> FALSE, message |-> "network down"] }
NoRejection == [isError |-> FALSE, message |-> Null]

\* Results of fetchData (page mode) and fetchCursor (cursor mode).
PageResults == Batches
CursorBatches == {Batch(1), Batch(PageSize)}
CursorResults ==
  [items : CursorBatches, nextCursor : Tokens \cup {Null}, hasMore : BOOLEAN]

\* What a settled fetch delivered, in one shape for both modes: a page fetch
\* delivers items only.
Delivered(cfg, result) ==
  IF cfg.mode = "cursor" THEN result
  ELSE [items |-> result, nextCursor |-> Null, hasMore |-> FALSE]
NoResult == [items |-> <<>>, nextCursor |-> Null, hasMore |-> FALSE]

\* The caller-supplied config.hasMore(lastPage, allPages) of the explored
\* configurations that have one: it reports more items while fewer than two
\* pages are held, whatever the length of the last page.
ConfigHasMore(lastPage, allPages) == Len(allPages) < 2

\* The configurations explored. hasMore tells whether the configuration
\* carries the override above; totalItems is the set holding the configured
\* total, empty when none is configured.
Configs ==
  [mode : {"page"}, pageSize : {PageSize}, autoLoad : BOOLEAN,
   initialPage : {0, 1}, hasMore : {FALSE}, totalItems : {{}}]
  \cup
  [mode : {"page"}, pageSize : {PageSize}, autoLoad : BOOLEAN,
   initialPage : {0}, hasMore : {TRUE}, totalItems : {{}}]
  \cup
  [mode : {"page"}, pageSize : {PageSize}, autoLoad : BOOLEAN,
   initialPage : {0}, hasMore : {FALSE}, totalItems : {{PageSize}}]
  \cup
  [mode : {"cursor"}, pageSize : {PageSize}, autoLoad : BOOLEAN,
   initialPage : {0}, hasMore : {FALSE}, totalItems : {{}}]

VARIABLES
  instance,      \* "hook" or "usecase": the object this behaviour exercises
  config,        \* the caller-supplied configuration
  state,         \* hook: the React state cell (InfiniteScrollState)
  isLoadingRef,  \* hook: the reentrancy guard
  isMountedRef,  \* hook: the disposal flag
  phase,         \* hook: "constructed", "mounted" or "unmounted"
  inflight,      \* hook: the operations awaiting their fetch
  svc,           \* StateManagerService.state
  executing,     \* LoadMoreUseCase.execute calls awaiting loadPage
  resets,        \* hook: number of reset() calls so far
  last,          \* the last event: what was invoked or settled, and how
  threshold,     \* list: config.threshold the InfiniteScrollList is given
  onEndReachedThreshold  \* list: the prop its render hands to FlatList

hookVars == <<state, isLoadingRef, isMountedRef, phase, inflight, resets>>
svcVars == <<svc, executing>>
listVars == <<threshold, onEndReachedThreshold>>
vars == <<instance, config, state, isLoadingRef, isMountedRef, phase,
          inflight, resets, svc, executing, last, threshold,
          onEndReachedThreshold>>

\* ----------------------------------------------------------- pure helpers
\* Array.prototype.flat() on an array of arrays.
RECURSIVE Flat(_)
Flat(pages) ==
  IF pages = <<>> THEN <<>> ELSE Head(pages) \o Flat(Tail(pages))

\* JavaScript truthiness of a string | null.
Truthy(c) == c # Null /\ c # ""

isCursorMode(cfg) == cfg.mode = "cursor"

\* `"initialPage" in config ? config.initialPage || 0 : DEFAULT_CONFIG.initialPage`
InitialPage(cfg) == IF cfg.mode = "page" THEN cfg.initialPage ELSE 0

createInitialState(initialPage) ==
  [items |-> <<>>, pages |-> <<>>, currentPage |-> initialPage,
   cursor |-> Null, hasMore |-> TRUE, isLoading |-> TRUE,
   isLoadingMore |-> FALSE, isRefreshing |-> FALSE, error |-> Null]

\* `error instanceof Error ? error.message : fallback`
ErrorMessageFallbackOnly(rej, fallback) == fallback
ErrorMessage(rej, fallback) ==
  IF rej.isError THEN rej.message ELSE fallback

\* The fallback text of each operation's catch block.
Fallback(op) ==
  CASE op = "loadInitial" -> "Failed to load data"
    [] op = "loadMore" -> "Failed to load more items"
    [] op = "refresh" -> "Failed to refresh data"
    [] op = "execute" -> "Failed to load more items"

\* InfiniteScrollService.loadPage: what it rethrows when fetchData rejects.
LoadPageError(rej) ==
  [isError |-> TRUE, message |-> ErrorMessage(rej, "Failed to load data")]

\* hasMoreItems(lastPage, allPages, pageSize)
hasMoreItems(lastPage, allPages, pageSize) == Len(lastPage) >= pageSize

\* InfiniteScrollService.checkHasMore
checkHasMore(cfg, lastPage, allPages) ==
  IF cfg.hasMore
  THEN ConfigHasMore(lastPage, allPages)
  ELSE hasMoreItems(lastPage, allPages, cfg.pageSize)

\* The loading flag each operation sets and clears.
FlagOf(op) ==
  CASE op = "loadInitial" -> "isLoading"
    [] op = "loadMore" -> "isLoadingMore"
    [] op = "refresh" -> "isRefreshing"

\* `const hasMore = data.length >= pageSize` of loadData and loadMoreData.
LengthRuleStrict(data, pageSize) == Len(data) > pageSize
LengthRule(data, pageSize) == Len(data) >= pageSize

\* loadData: the argument of the fetch it issues ...
LoadDataArg(cfg, pageOrCursor) == Num(pageOrCursor)
\* ... and the state it returns once the fetch resolved with result.
loadDataRecomputesHasMore(cfg, pageOrCursor, result) ==
  IF isCursorMode(cfg)
  THEN [items |-> result.items, pages |-> <<result.items>>,
        currentPage |-> 0, cursor |-> result.nextCursor,
        hasMore |-> LengthRule(result.items, cfg.pageSize),
        isLoading |-> FALSE,
        isLoadingMore |-> FALSE, isRefreshing |-> FALSE, error |-> Null]
  ELSE [items |-> result, pages |-> <<result>>,
        currentPage |-> pageOrCursor, cursor |-> Null,
        hasMore |-> LengthRule(result, cfg.pageSize), isLoading |-> FALSE,
        isLoadingMore |-> FALSE, isRefreshing |-> FALSE, error |-> Null]
loadData(cfg, pageOrCursor, result) ==
  IF isCursorMode(cfg)
  THEN [items |-> result.items, pages |-> <<result.items>>,
        currentPage |-> 0, cursor |-> result.nextCursor,
        hasMore |-> result.hasMore, isLoading |-> FALSE,
        isLoadingMore |-> FALSE, isRefreshing |-> FALSE, error |-> Null]
  ELSE [items |-> result, pages |-> <<result>>,
        currentPage |-> pageOrCursor, cursor |-> Null,
        hasMore |-> LengthRule(result, cfg.pageSize), isLoading |-> FALSE,
        isLoadingMore |-> FALSE, isRefreshing |-> FALSE, error |-> Null]

\* loadMoreData: the argument of the fetch it issues from the captured state
LoadMoreArgSamePage(cfg, s) ==
  IF isCursorMode(cfg) THEN Str(s.cursor) ELSE Num(s.currentPage)
LoadMoreArg(cfg, s) ==
  IF isCursorMode(cfg) THEN Str(s.cursor) ELSE Num(s.currentPage + 1)
\* ... and the updates it returns, merged over prev by
\* setState((prev) => ({ ...prev, ...updates })).
loadMoreDataPrepends(cfg, s, result, prev) ==
  IF isCursorMode(cfg)
  THEN [prev EXCEPT !.items = result.items \o s.items,
                    !.pages = Append(s.pages, result.items),
                    !.cursor = result.nextCursor,
                    !.hasMore = result.hasMore,
                    !.isLoadingMore = FALSE,
                    !.error = Null]
  ELSE [prev EXCEPT !.items = result \o Flat(s.pages),
                    !.pages = Append(s.pages, result),
                    !.currentPage = s.currentPage + 1,
                    !.hasMore = LengthRule(result, cfg.pageSize),
                    !.isLoadingMore = FALSE,
                    !.error = Null]
loadMoreData(cfg, s, result, prev) ==
  IF isCursorMode(cfg)
  THEN [prev EXCEPT !.items = s.items \o result.items,
                    !.pages = Append(s.pages, result.items),
                    !.cursor = result.nextCursor,
                    !.hasMore = result.hasMore,
                    !.isLoadingMore = FALSE,
                    !.error = Null]
  ELSE [prev EXCEPT !.items = Flat(Append(s.pages, result)),
                    !.pages = Append(s.pages, result),
                    !.currentPage = s.currentPage + 1,
                    !.hasMore = LengthRule(result, cfg.pageSize),
                    !.isLoadingMore = FALSE,
                    !.error = Null]

\* The results the caller-supplied fetch of a configuration can resolve with.
Results(cfg) == IF isCursorMode(cfg) THEN CursorResults ELSE PageResults

\* ------------------------------------------------------------- the events
\* The data fields of the state an operation saw when it was invoked. For
\* loadMore this is the `state` its callback closed over and hands to
\* loadMoreData; loadInitial and refresh read nothing of it, their record
\* keeps it as history only.
Snap(s) ==
  [items |-> s.items, pages |-> s.pages, currentPage |-> s.currentPage,
   cursor |-> s.cursor, hasMore |-> s.hasMore]
NoSnap == Snap(createInitialState(0))
\* An event: what happened (ev) to which operation (op); for a settled fetch
\* the rejection value (rej), the state the operation had captured (snap),
\* whether the operation's promise rejected (threw), the argument the fetch
\* had been called with (arg) and the result written to the state (res).
Event(ev, op, rej, snap, threw, arg, res) ==
  [ev |-> ev, op |-> op, rej |-> rej, snap |-> snap, threw |-> threw,
   arg |-> arg, res |-> res]
Call(ev, op) == Event(ev, op, NoRejection, NoSnap, FALSE, Undefined, NoResult)

\* An outstanding operation: which one, the fetch argument, and the state
\* its callback closed over when it was invoked.
Op(op, arg, snap) == [op |-> op, arg |-> arg, snap |-> snap]

RemoveAt(seq, i) ==
  [j \in 1..(Len(seq) - 1) |-> IF j < i THEN seq[j] ELSE seq[j + 1]]

\* ---------------------------------------------------------------- Init
\* onEndReachedThreshold before a FlatList was rendered.
NotRendered == Undefined

svcInitialState ==
  [items |-> <<>>, pages |-> <<>>, currentPage |-> 0, hasMore |-> TRUE,
   isLoading |-> TRUE, isLoadingMore |-> FALSE, isRefreshing |-> FALSE,
   error |-> Null]

Init ==
  /\ instance \in {"hook", "usecase"}
  /\ config \in Configs
  /\ instance = "usecase" => config.mode = "page" /\ config.autoLoad
  /\ state = createInitialState(InitialPage(config))
  /\ isLoadingRef = FALSE
  /\ isMountedRef = TRUE
  /\ phase = "constructed"
  /\ inflight = <<>>
  /\ resets = 0
  /\ svc = [svcInitialState EXCEPT !.currentPage = config.initialPage]
  /\ executing = <<>>
  /\ last = Call("init", "none")
  /\ threshold = Undefined
  /\ onEndReachedThreshold = NotRendered

\* ------------------------------------------------------ the hook's actions
\* Body of loadInitial / refresh up to the await (op names which).
StartLoad(op) ==
  IF isLoadingRef
  THEN /\ last' = Call("dropped", op)
       /\ UNCHANGED <<state, isLoadingRef, inflight>>
  ELSE /\ isLoadingRef' = TRUE
       /\ state' = IF isMountedRef
                   THEN [state EXCEPT ![FlagOf(op)] = TRUE, !.error = Null]
                   ELSE state
       /\ inflight' = Append(inflight,
                        Op(op, LoadDataArg(config, InitialPage(config)), Snap(state)))
       /\ last' = Call("accepted", op)

\* The mount effect (isMountedRef.current = true) and the autoLoad effect,
\* run together after the first render.
MountEffects ==
  /\ instance = "hook"
  /\ phase = "constructed"
  /\ phase' = "mounted"
  /\ isMountedRef' = TRUE
  /\ IF config.autoLoad
     THEN StartLoad("loadInitial")
     ELSE /\ last' = Call("effects", "none")
          /\ UNCHANGED <<state, isLoadingRef, inflight>>
  /\ UNCHANGED <<instance, config, resets,
               svcVars, listVars>>

\* The guard clauses of loadMore: TRUE when the call returns at once.
LoadMoreRejectsNoGuardRef(s, guard, cfg) ==
  \/ ~s.hasMore \/ s.isLoadingMore \/ s.isLoading
  \/ (isCursorMode(cfg) /\ ~Truthy(s.cursor))
LoadMoreRejectsNoHasMore(s, guard, cfg) ==
  \/ guard \/ s.isLoadingMore \/ s.isLoading
  \/ (isCursorMode(cfg) /\ ~Truthy(s.cursor))
LoadMoreRejectsNoCursorCheck(s, guard, cfg) ==
  guard \/ ~s.hasMore \/ s.isLoadingMore \/ s.isLoading
LoadMoreRejects(s, guard, cfg) ==
  \/ guard \/ ~s.hasMore \/ s.isLoadingMore \/ s.isLoading
  \/ (isCursorMode(cfg) /\ ~Truthy(s.cursor))

\* canLoadMore, as the hook returns it.
canLoadMore(s) == s.hasMore /\ ~s.isLoadingMore /\ ~s.isLoading

Callable == instance = "hook" /\ phase \in {"mounted", "unmounted"}

LoadMore ==
  /\ Callable
  /\ IF LoadMoreRejects(state, isLoadingRef, config)
     THEN /\ last' = Call("dropped", "loadMore")
          /\ UNCHANGED <<state, isLoadingRef, inflight>>
     ELSE /\ isLoadingRef' = TRUE
          /\ state' = IF isMountedRef
                      THEN [state EXCEPT !.isLoadingMore = TRUE, !.error = Null]
                      ELSE state
          /\ inflight' = Append(inflight,
                           Op("loadMore", LoadMoreArg(config, state), Snap(state)))
          /\ last' = Call("accepted", "loadMore")
  /\ UNCHANGED <<instance, config, isMountedRef, phase, resets,
               svcVars, listVars>>

Refresh ==
  /\ Callable
  /\ StartLoad("refresh")
  /\ UNCHANGED <<instance, config, isMountedRef, phase, resets,
               svcVars, listVars>>

\* reset(): releases the guard and replaces the state.
ResetGuardToggles(guard) == ~guard
ResetGuard(guard) == FALSE

Reset ==
  /\ Callable
  /\ resets < MaxResets \/ last.op = "reset"
  /\ resets' = IF last.op = "reset" THEN resets ELSE resets + 1
  /\ isLoadingRef' = ResetGuard(isLoadingRef)
  /\ state' = createInitialState(InitialPage(config))
  /\ last' = Call("reset", "reset")
  /\ UNCHANGED <<instance, config, isMountedRef, phase, inflight,
               svcVars, listVars>>

\* Cleanup of the mount effect.
Unmount ==
  /\ instance = "hook"
  /\ phase = "mounted"
  /\ phase' = "unmounted"
  /\ isMountedRef' = FALSE
  /\ last' = Call("unmount", "none")
  /\ UNCHANGED <<instance, config, state, isLoadingRef, inflight, resets,
               svcVars, listVars>>

\* The state an operation writes when its fetch resolved with result.
ResolvedStateKeepsPages(o, result, prev) ==
  IF o.op = "loadMore"
  THEN loadMoreData(config, o.snap, result, prev)
  ELSE [loadData(config, InitialPage(config), result)
          EXCEPT !.pages = Append(prev.pages, Delivered(config, result).items),
                 !.items = Flat(Append(prev.pages,
                                       Delivered(config, result).items))]
ResolvedState(o, result, prev) ==
  IF o.op = "loadMore"
  THEN loadMoreData(config, o.snap, result, prev)
  ELSE loadData(config, InitialPage(config), result)

\* The catch block: does it handle the rejection, and the state it writes.
CatchHandlesErrorsOnly(o, rej) == rej.isError
CatchHandles(o, rej) == TRUE

CaughtStateKeepsFlag(o, rej, prev) ==
  [prev EXCEPT !.error = ErrorMessage(rej, Fallback(o.op))]
CaughtStateErasesItems(o, rej, prev) ==
  [prev EXCEPT ![FlagOf(o.op)] = FALSE,
               !.error = ErrorMessage(rej, Fallback(o.op)),
               !.items = <<>>, !.pages = <<>>]
CaughtState(o, rej, prev) ==
  [prev EXCEPT ![FlagOf(o.op)] = FALSE,
               !.error = ErrorMessage(rej, Fallback(o.op))]

\* The finally block of loadInitial / loadMore / refresh.
ReleaseGuardIfMounted(guard, mounted) == IF mounted THEN FALSE ELSE guard
ReleaseGuard(guard, mounted) == FALSE

\* The awaited fetch of outstanding operation i resolves with result: the
\* try block's write, then the finally block.
Resolve(i, result) ==
  LET o == inflight[i] IN
  /\ state' = IF isMountedRef
              THEN ResolvedState(o, result, state)
              ELSE state
  /\ isLoadingRef' = ReleaseGuard(isLoadingRef, isMountedRef)
  /\ inflight' = RemoveAt(inflight, i)
  /\ last' = Event("resolved", o.op, NoRejection, o.snap, FALSE,
                   o.arg,
                   IF isMountedRef THEN Delivered(config, result)
                   ELSE NoResult)
  /\ UNCHANGED <<instance, config, isMountedRef, phase, resets,
                 svcVars, listVars>>

\* The fetch of some outstanding operation resolves with any result the
\* caller-supplied fetch may return.
FetchResolves ==
  /\ instance = "hook"
  /\ \E i \in 1..Len(inflight) : \E result \in Results(config) :
       /\ inflight[i].op = "loadMore" =>
            \/ Len(inflight[i].snap.pages) < MaxPages
            \/ Delivered(config, result).items = <<>>
       /\ Resolve(i, result)

\* The awaited fetch of outstanding operation i rejects: the catch block's
\* write, then the finally block.
FetchRejects ==
  /\ instance = "hook"
  /\ \E i \in 1..Len(inflight) : \E rej \in Rejections :
       LET o == inflight[i] IN
       /\ state' = IF isMountedRef /\ CatchHandles(o, rej)
                   THEN CaughtState(o, rej, state)
                   ELSE state
       /\ isLoadingRef' = ReleaseGuard(isLoadingRef, isMountedRef)
       /\ inflight' = RemoveAt(inflight, i)
       /\ last' = Event("rejected", o.op, rej, o.snap, ~CatchHandles(o, rej),
                        o.arg, NoResult)
  /\ UNCHANGED <<instance, config, isMountedRef, phase, resets,
               svcVars, listVars>>

HookNext ==
  \/ MountEffects
  \/ LoadMore
  \/ Refresh
  \/ Reset
  \/ Unmount
  \/ FetchResolves
  \/ FetchRejects

\* ------------------------------------- StateManagerService, LoadMoreUseCase
updateState(s, updates) ==
  [f \in DOMAIN s |-> IF f \in DOMAIN updates THEN updates[f] ELSE s[f]]

addPage(s, pageData, hasMore) ==
  updateState(s,
    [pages |-> Append(s.pages, pageData),
     items |-> Flat(Append(s.pages, pageData)),
     currentPage |-> s.currentPage + 1, hasMore |-> hasMore,
     isLoading |-> FALSE, isLoadingMore |-> FALSE, isRefreshing |-> FALSE,
     error |-> Null])

setInitialData(s, data, hasMore) ==
  updateState(s,
    [items |-> data, pages |-> <<data>>, currentPage |-> 0,
     hasMore |-> hasMore, isLoading |-> FALSE, isLoadingMore |-> FALSE,
     isRefreshing |-> FALSE, error |-> Null])

svcReset(initialPage) ==
  [items |-> <<>>, pages |-> <<>>, currentPage |-> initialPage,
   hasMore |-> TRUE, isLoading |-> TRUE, isLoadingMore |-> FALSE,
   isRefreshing |-> FALSE, error |-> Null]

\* The data fields of the copy getState() returned to execute.
SvcSnap(s) ==
  [items |-> s.items, pages |-> s.pages, currentPage |-> s.currentPage,
   cursor |-> Null, hasMore |-> s.hasMore]

SetInitialData ==
  /\ instance = "usecase"
  /\ resets < MaxResets
  /\ resets' = resets + 1
  /\ \E data \in Batches : \E hasMore \in BOOLEAN :
       svc' = setInitialData(svc, data, hasMore)
  /\ last' = Call("direct", "setInitialData")
  /\ UNCHANGED <<listVars, config, instance, state, isLoadingRef, isMountedRef, phase,
                 inflight, executing>>

AddPage ==
  /\ instance = "usecase"
  /\ Len(svc.pages) < MaxPages
  /\ \E data \in Batches : \E hasMore \in BOOLEAN :
       svc' = addPage(svc, data, hasMore)
  /\ last' = Call("direct", "addPage")
  /\ UNCHANGED <<listVars, config, instance, hookVars, executing>>

SvcReset ==
  /\ instance = "usecase"
  /\ resets < MaxResets \/ last.op = "svcReset"
  /\ resets' = IF last.op = "svcReset" THEN resets ELSE resets + 1
  /\ \E initialPage \in {0, config.initialPage} :
       svc' = svcReset(initialPage)
  /\ last' = Call("reset", "svcReset")
  /\ UNCHANGED <<listVars, config, instance, state, isLoadingRef, isMountedRef, phase,
                 inflight, executing>>

\* The guard clauses of LoadMoreUseCase.execute.
ExecuteRejects(s) == ~s.hasMore \/ s.isLoadingMore \/ s.isLoading

\* LoadMoreUseCase.execute up to `await loadPage(nextPage)`.
Execute ==
  /\ instance = "usecase"
  /\ IF ExecuteRejects(svc)
     THEN /\ last' = Call("dropped", "execute")
          /\ UNCHANGED <<svc, executing>>
     ELSE /\ Len(executing) <= MaxResets
          /\ svc' = updateState(updateState(svc, [isLoadingMore |-> TRUE]),
                                [error |-> Null])
          /\ executing' = Append(executing,
                            Op("execute", Num(svc.currentPage + 1), SvcSnap(svc)))
          /\ last' = Call("accepted", "execute")
  /\ UNCHANGED <<listVars, config, instance, hookVars>>

\* loadPage resolved: checkHasMore on the captured pages, then addPage.
LoadPageResolves ==
  /\ instance = "usecase"
  /\ \E i \in 1..Len(executing) : \E data \in Batches :
       LET e == executing[i] IN
       /\ Len(svc.pages) < MaxPages \/ data = <<>>
       /\ svc' = addPage(svc, data,
                   checkHasMore(config, data, Append(e.snap.pages, data)))
       /\ executing' = RemoveAt(executing, i)
       /\ last' = Event("resolved", "execute", NoRejection, e.snap, FALSE,
                        e.arg, Delivered(config, data))
  /\ UNCHANGED <<listVars, config, instance, hookVars>>

\* The catch block of execute: setError, then setLoadingMore(false).
ExecuteCaught(s, rej) ==
  updateState(
    updateState(s, [error |-> ErrorMessage(LoadPageError(rej), Fallback("execute"))]),
    [isLoadingMore |-> FALSE])

\* loadPage rejected (fetchData rejected and loadPage rethrew).
LoadPageRejects ==
  /\ instance = "usecase"
  /\ \E i \in 1..Len(executing) : \E rej \in Rejections :
       LET e == executing[i] IN
       /\ svc' = IF CatchHandles(e, LoadPageError(rej))
                 THEN ExecuteCaught(svc, rej)
                 ELSE svc
       /\ executing' = RemoveAt(executing, i)
       /\ last' = Event("rejected", "execute", rej, e.snap,
                        ~CatchHandles(e, LoadPageError(rej)), e.arg, NoResult)
  /\ UNCHANGED <<listVars, config, instance, hookVars>>

UseCaseNext ==
  \/ SetInitialData
  \/ AddPage
  \/ SvcReset
  \/ Execute
  \/ LoadPageResolves
  \/ LoadPageRejects

Next == HookNext \/ UseCaseNext

Spec == Init /\ [][Next]_vars

\* The hook alone, under the scheduling the claims about progress assume:
\* every outstanding fetch eventually settles (the caller-supplied promise
\* resolves or rejects) and React runs the effects after the first render.
\* Nothing obliges the caller to invoke loadMore, refresh, reset or to
\* unmount.
HookInit == Init /\ instance = "hook"
FairSpec ==
  /\ HookInit
  /\ [][HookNext]_vars
  /\ WF_vars(FetchResolves \/ FetchRejects)
  /\ WF_vars(MountEffects)

\* ------------------------------------------------------ InfiniteScrollList
\* Fractions of the visible length (onEndReachedThreshold) are held in
\* hundredths: 0.1 is 10, 0.01 is 1, 1.0 is 100, threshold / 100 is threshold.
DefaultThreshold == 10

\* The values of config.threshold explored: absent, or an integer.
Thresholds ==
  {Undefined} \cup {Num(n) : n \in (0 - MaxExcess)..(100 + MaxExcess)}

\* JavaScript truthiness of a number | undefined.
TruthyNumber(v) == v.t = "number" /\ v.n # 0

MathMax(a, b) == IF a >= b THEN a ELSE b
MathMin(a, b) == IF a <= b THEN a ELSE b

\* calculateEndReachedThreshold(threshold, defaultThreshold = 0.1)
calculateEndReachedThreshold(t, defaultThreshold) ==
  IF ~TruthyNumber(t)
  THEN defaultThreshold
  ELSE MathMax(1, MathMin(100, t.n))

\* `config.threshold ? config.threshold / 100 : 0.1` of the earlier
\* InfiniteScrollList.
InlineThreshold(t) == IF TruthyNumber(t) THEN t.n ELSE DefaultThreshold

\* The view the component returns for a state of the hook it wraps: the
\* loading, error or empty component, or the FlatList over state.items.
View(s) ==
  IF s.isLoading THEN "loading"
  ELSE IF Truthy(s.error) THEN "error"
  ELSE IF Len(s.items) = 0 /\ ~s.isLoading THEN "empty"
  ELSE "list"

\* The list component given a configuration with some threshold, before its
\* FlatList is rendered; the hook it wraps is left in its constructed state.
ListInit ==
  /\ instance \in {"list", "earlierList"}
  /\ threshold \in Thresholds
  /\ onEndReachedThreshold = NotRendered
  /\ config \in {c \in Configs : c.mode = "page" /\ c.autoLoad /\ ~c.hasMore
                                 /\ c.initialPage = 0 /\ c.totalItems = {}}
  /\ state = createInitialState(InitialPage(config))
  /\ isLoadingRef = FALSE
  /\ isMountedRef = TRUE
  /\ phase = "constructed"
  /\ inflight = <<>>
  /\ resets = 0
  /\ svc = svcInitialState
  /\ executing = <<>>
  /\ last = Call("init", "none")

\* The render that returns the FlatList computes its onEndReachedThreshold.
RenderList ==
  /\ instance \in {"list", "earlierList"}
  /\ onEndReachedThreshold = NotRendered
  /\ onEndReachedThreshold' =
       Num(IF instance = "list"
           THEN calculateEndReachedThreshold(threshold, DefaultThreshold)
           ELSE InlineThreshold(threshold))
  /\ last' = Call("rendered", "none")
  /\ UNCHANGED <<instance, config, hookVars, svcVars, threshold>>

ListNext == RenderList

ThresholdSpec == ListInit /\ [][ListNext]_vars

\* ------------------------------------- client-side paging with getPageSlice
\* Array.prototype.slice(start, end) for 0 <= start <= end.
Slice(items, start, end) ==
  LET from == MathMin(start, Len(items))
      to == MathMin(end, Len(items))
  IN [i \in 1..(to - from) |-> items[from + i]]

\* getPageSlice(items, page, pageSize)
getPageSliceSkipsFirst(items, page, pageSize) ==
  Slice(items, (page + 1) * pageSize, (page + 1) * pageSize + pageSize)
getPageSlice(items, page, pageSize) ==
  Slice(items, page * pageSize, page * pageSize + pageSize)

\* Page-based configurations whose fetchData(page, pageSize) is
\* getPageSlice(collection, page, pageSize) over a fixed collection, and
\* never fails.
SliceConfigs ==
  [mode : {"page"}, pageSize : 1..PageSize, autoLoad : {TRUE},
   initialPage : {0}, hasMore : {FALSE}, totalItems : {{}},
   collection : {Batch(n) : n \in 0..MaxItems}]

SliceInit ==
  /\ instance = "hook"
  /\ config \in SliceConfigs
  /\ state = createInitialState(InitialPage(config))
  /\ isLoadingRef = FALSE
  /\ isMountedRef = TRUE
  /\ phase = "constructed"
  /\ inflight = <<>>
  /\ resets = 0
  /\ svc = svcInitialState
  /\ executing = <<>>
  /\ last = Call("init", "none")
  /\ threshold = Undefined
  /\ onEndReachedThreshold = NotRendered

\* handleEndReached of the list: loadMore() while canLoadMore.
handleEndReached ==
  /\ canLoadMore(state) /\ config.autoLoad
  /\ LoadMore

\* The outstanding fetchData(page, pageSize) returns its slice.
SliceResolves ==
  /\ instance = "hook"
  /\ \E i \in 1..Len(inflight) :
       Resolve(i, getPageSlice(config.collection, inflight[i].arg.n,
                               config.pageSize))

SliceNext ==
  \/ MountEffects
  \/ handleEndReached
  \/ SliceResolves

\* The list keeps reporting the end reached and every fetch returns.
SliceSpec == SliceInit /\ [][SliceNext]_vars /\ WF_vars(SliceNext)

\* =================================================================== claims
Flags(s) == {f \in {"isLoading", "isLoadingMore", "isRefreshing"} : s[f]}
DataFields == {"items", "pages", "currentPage", "cursor", "hasMore"}
SameData(s, snap) == \A f \in DOMAIN snap : s[f] = snap[f]
\* The step just taken was an invocation of op (accepted or dropped).
Invoked(ops) == last'.ev \in {"accepted", "dropped"} /\ last'.op \in ops
HookUntouched == UNCHANGED <<state, isLoadingRef, inflight>>

\* C1: in every reachable state items is the in-order concatenation of
\* pages, in the hook's state (page and cursor mode) and in the
\* StateManagerService's state.
ItemsAreFlattenedPages ==
  /\ state.items = Flat(state.pages)
  /\ svc.items = Flat(svc.pages)
\* Two pages of different content were accumulated by a loadMore.
TwoPagesLoaded ==
  /\ last.ev = "resolved" /\ last.op = "loadMore"
  /\ state.pages = <<Batch(PageSize), Batch(1)>>
  /\ Len(state.items) = PageSize + 1

\* C2: in every reachable state at most one of isLoading, isLoadingMore,
\* isRefreshing is true.
AtMostOneLoadingFlag == Cardinality(Flags(state)) <= 1

\* C3: at every instant at most one caller-supplied fetch of the hook is
\* outstanding.
AtMostOneOutstandingFetch == Len(inflight) <= 1

\* C4: a loadInitial, loadMore or refresh invoked while the guard is held is
\* dropped: no state field, the guard and the outstanding fetches are all
\* unchanged; and a fetch is only ever issued by a call that was accepted
\* with the guard free, so nothing is issued later for a dropped call.
DroppedWhileGuardHeld ==
  [][ /\ (Invoked({"loadInitial", "loadMore", "refresh"}) /\ isLoadingRef)
         => (last'.ev = "dropped" /\ HookUntouched)
      /\ (Len(inflight') > Len(inflight))
         => (last'.ev = "accepted" /\ ~isLoadingRef
             /\ Len(inflight') = Len(inflight) + 1) ]_vars
\* A second loadMore() was just dropped while the first one's fetch is the
\* only fetch outstanding.
SecondLoadMoreDropped ==
  /\ last.ev = "dropped" /\ last.op = "loadMore"
  /\ isLoadingRef
  /\ Len(inflight) = 1 /\ inflight[1].op = "loadMore"

\* C5: loadMore() (hook) and execute() (use case) invoked when hasMore is
\* false, or isLoading or isLoadingMore is true, issue no fetch and change
\* no state field.
LoadMoreNeedsHasMoreAndIdle ==
  [][ /\ (Invoked({"loadMore"})
          /\ (~state.hasMore \/ state.isLoading \/ state.isLoadingMore))
         => (last'.ev = "dropped" /\ HookUntouched)
      /\ (Invoked({"execute"})
          /\ (~svc.hasMore \/ svc.isLoading \/ svc.isLoadingMore))
         => (last'.ev = "dropped" /\ UNCHANGED <<svc, executing>>) ]_vars
\* loadMore() was just dropped with the guard free, only because a fetch
\* had set hasMore to false.
LoadMoreDroppedAtEnd ==
  /\ last.ev = "dropped" /\ last.op = "loadMore"
  /\ ~isLoadingRef /\ ~state.hasMore /\ Flags(state) = {}
  /\ Len(state.pages) >= 1
  /\ (isCursorMode(config) => Truthy(state.cursor))

\* C6 as stated: after the fetch of an accepted loadMore rejected (mounted
\* hook), error is set, isLoadingMore is false and items, pages,
\* currentPage, cursor and hasMore are what they were before the loadMore
\* was invoked.
LoadMoreFailureRestoresInvocationData ==
  (instance = "hook" /\ last.ev = "rejected" /\ last.op = "loadMore"
   /\ isMountedRef)
  => /\ state.error # Null
     /\ ~state.isLoadingMore
     /\ SameData(state, last.snap)
\* C6 as amended: on a mounted hook, and in the use case, the rejection of a
\* loadMore's fetch sets error to a non-null message and isLoadingMore to
\* false and leaves items, pages, currentPage, cursor and hasMore exactly
\* as they were immediately before the rejection was handled; in a run
\* without reset() these are the values from before the loadMore.
LoadMoreFailureKeepsData ==
  [][ /\ (last'.ev = "rejected" /\ last'.op = "loadMore" /\ isMountedRef)
         => /\ state'.error # Null
            /\ ~state'.isLoadingMore
            /\ \A f \in DataFields : state'[f] = state[f]
            /\ resets = 0 => SameData(state', last'.snap)
      /\ (last'.ev = "rejected" /\ last'.op = "execute")
         => /\ svc'.error # Null
            /\ ~svc'.isLoadingMore
            /\ \A f \in DataFields \ {"cursor"} : svc'[f] = svc[f] ]_vars
\* A loadMore just failed after two successful pages (scenario D).
LoadMoreFailedAfterTwoPages ==
  /\ last.ev = "rejected" /\ last.op = "loadMore"
  /\ isMountedRef
  /\ Len(state.pages) = 2 /\ Len(state.items) = 2 * PageSize
  /\ state.error # Null /\ ~state.isLoadingMore

\* C7: after the fetch of the initial load rejected with an Error of
\* message m (mounted hook), error = m, the three loading flags are false
\* and items = pages = [].
InitialFailureLeavesEmptyIdleState ==
  (last.ev = "rejected" /\ last.op = "loadInitial" /\ last.rej.isError
   /\ isMountedRef)
  => /\ state.error = last.rej.message
     /\ Flags(state) = {}
     /\ state.items = <<>> /\ state.pages = <<>>

\* C8 as stated: after the fetch of an accepted refresh rejected (mounted
\* hook), error is set, isRefreshing is false and items, pages,
\* currentPage, cursor and hasMore are unchanged from before the refresh.
RefreshFailureRestoresInvocationData ==
  (last.ev = "rejected" /\ last.op = "refresh" /\ isMountedRef)
  => /\ state.error # Null
     /\ ~state.isRefreshing
     /\ SameData(state, last.snap)
\* C8 as amended: on a mounted hook the rejection of a refresh's fetch sets
\* error to a non-null message and isRefreshing to false and leaves items,
\* pages, currentPage, cursor and hasMore exactly as they were immediately
\* before the rejection was handled; in a run without reset() these are the
\* values from before the refresh.
RefreshFailureKeepsData ==
  [][ (last'.ev = "rejected" /\ last'.op = "refresh" /\ isMountedRef)
      => /\ state'.error # Null
         /\ ~state'.isRefreshing
         /\ \A f \in DataFields : state'[f] = state[f]
         /\ resets = 0 => SameData(state', last'.snap) ]_vars
\* A refresh just failed behind a loaded, non-empty list.
RefreshFailedBehindList ==
  /\ last.ev = "rejected" /\ last.op = "refresh"
  /\ isMountedRef
  /\ state.items = Batch(PageSize) /\ state.pages = <<Batch(PageSize)>>
  /\ state.error # Null /\ Flags(state) = {}

\* C9: no operation's promise ever rejects, whatever the fetch rejected
\* with; on a mounted hook, and in the use case, every fetch failure ends as
\* a non-null state.error.
FailuresNeverThrow ==
  /\ ~last.threw
  /\ (last.ev = "rejected" /\ instance = "hook" /\ isMountedRef)
     => state.error # Null
  /\ (last.ev = "rejected" /\ instance = "usecase") => svc.error # Null
\* A cursor-mode refresh whose fetch rejected with a value that is not an
\* Error ended as a message in state.error.
NonErrorRejectionCaptured ==
  /\ last.ev = "rejected" /\ last.op = "refresh" /\ ~last.rej.isError
  /\ isCursorMode(config) /\ isMountedRef
  /\ state.error # Null /\ ~last.threw

\* The error text written for a rejection (hook mounted, or use case).
ErrorWritten == IF instance = "hook" THEN state.error ELSE svc.error
FailureWritten ==
  last.ev = "rejected" /\ (instance = "hook" => isMountedRef)
\* C10 as stated: after every failed fetch state.error is the rejection
\* value's own message, for Error instances and other values alike.
ErrorIsVerbatim == FailureWritten => ErrorWritten = last.rej.message
\* C10 as amended: state.error is the rejection's message when the fetch
\* rejected with an Error instance; for any other rejection value it is the
\* operation's fixed text: "Failed to load data" (loadInitial, and
\* loadPage under execute), "Failed to load more items" (loadMore),
\* "Failed to refresh data" (refresh).
ErrorIsMessageOrFixedText ==
  FailureWritten =>
    ErrorWritten =
      IF last.rej.isError THEN last.rej.message
      ELSE CASE last.op = "loadInitial" -> "Failed to load data"
             [] last.op = "loadMore" -> "Failed to load more items"
             [] last.op = "refresh" -> "Failed to refresh data"
             [] last.op = "execute" -> "Failed to load data"
\* A loadMore whose fetch rejected with a plain string left the fixed text.
PlainStringRejectionOfLoadMore ==
  /\ last.ev = "rejected" /\ last.op = "loadMore" /\ ~last.rej.isError
  /\ isMountedRef
  /\ state.error = "Failed to load more items"

\* The state a settled fetch was written to: the hook's state cell (only a
\* mounted hook writes) or the StateManagerService's state.
Written(ev) == last.ev = ev /\ (instance = "hook" => isMountedRef)
Current == IF instance = "hook" THEN state ELSE svc
PlainPageConfig ==
  config.mode = "page" /\ ~config.hasMore /\ config.totalItems = {}

\* C11: page mode, no hasMore override, no totalItems: after every
\* successful fetch (initial load, refresh, loadMore, execute) hasMore is
\* true exactly when the returned batch holds at least pageSize items.
HasMoreIffFullBatch ==
  (Written("resolved") /\ PlainPageConfig)
  => (Current.hasMore <=> Len(last.res.items) >= config.pageSize)
\* A loadMore just returned a batch of exactly pageSize items and hasMore is
\* true.
FullBatchKeepsHasMore ==
  /\ Written("resolved") /\ PlainPageConfig /\ instance = "hook"
  /\ last.op = "loadMore"
  /\ Len(last.res.items) = config.pageSize
  /\ state.hasMore

\* C12: page mode with a config.hasMore override: after every successful
\* fetch hasMore is the override's result on the returned batch and the
\* pages including that batch.
HasMoreIsOverrideResult ==
  (Written("resolved") /\ config.mode = "page" /\ config.hasMore)
  => (Current.hasMore <=> ConfigHasMore(last.res.items, Current.pages))

\* C13: with totalItems configured, hasMore after a successful fetch is true
\* only if fewer than totalItems items are loaded.
TotalItemsGatesHasMore ==
  Written("resolved")
  => \A total \in config.totalItems :
       Current.hasMore => Len(Current.items) < total

\* The step just taken accepted / settled an operation of ops.
Accepted(ops) == last'.ev = "accepted" /\ last'.op \in ops
Settled(ev, ops) == last'.ev = ev /\ last'.op \in ops
\* The fetch call issued by the step just taken.
Issued == inflight'[Len(inflight')]

IsPrefix(a, b) == Len(a) <= Len(b) /\ \A i \in 1..Len(a) : a[i] = b[i]

\* C15: a successful loadMore (mounted hook) or execute appends exactly one
\* page: the new pages are the pages held when the result is written
\* followed by the returned batch, the previous items are a prefix of the
\* new items, isLoadingMore becomes false and error is null.
LoadMoreAppendsOnePage ==
  [][ /\ (Settled("resolved", {"loadMore"}) /\ isMountedRef)
         => /\ state'.pages = Append(state.pages, last'.res.items)
            /\ IsPrefix(state.items, state'.items)
            /\ ~state'.isLoadingMore
            /\ state'.error = Null
      /\ Settled("resolved", {"execute"})
         => /\ svc'.pages = Append(svc.pages, last'.res.items)
            /\ IsPrefix(svc.items, svc'.items)
            /\ ~svc'.isLoadingMore
            /\ svc'.error = Null ]_vars

\* C16: cursor mode: the fetch of the initial load and of every refresh is
\* called with an absent (undefined) cursor as first argument.
CursorLoadsPassUndefined ==
  \A i \in 1..Len(inflight) :
    (isCursorMode(config) /\ inflight[i].op \in {"loadInitial", "refresh"})
    => inflight[i].arg = Undefined

Loads == {"loadInitial", "refresh", "loadMore"}

\* C17: cursor mode. A successful fetch (mounted hook) leaves cursor and
\* hasMore equal to the nextCursor and hasMore it returned; an accepted
\* loadMore calls fetchCursor with state.cursor, a non-empty string; and
\* state.cursor changes only when a successful fetch is written or on
\* reset(), so that cursor is the one the most recent successful fetch
\* returned.
CursorAndHasMoreVerbatim ==
  [][ isCursorMode(config) =>
      /\ (Settled("resolved", Loads) /\ isMountedRef)
         => /\ state'.cursor = last'.res.nextCursor
            /\ state'.hasMore = last'.res.hasMore
      /\ Accepted({"loadMore"})
         => Issued.arg = Str(state.cursor) /\ Truthy(state.cursor)
      /\ state'.cursor # state.cursor
         => (Settled("resolved", Loads) /\ isMountedRef)
            \/ last'.ev = "reset" ]_vars
\* A loadMore was just accepted with the cursor "tok2" that the previous
\* loadMore returned together with a short batch and hasMore = true.
LoadMoreCalledWithReturnedCursor ==
  /\ isCursorMode(config) /\ isMountedRef
  /\ last.ev = "accepted" /\ last.op = "loadMore"
  /\ state.pages = <<Batch(PageSize), Batch(1)>>
  /\ state.cursor = "tok2" /\ state.hasMore
  /\ Len(inflight) = 1 /\ inflight[1].arg = Str("tok2")

\* C18: cursor mode: loadMore() invoked while state.cursor is null is
\* dropped: it calls no fetch, leaves the guard as it is and changes no
\* state field, also when hasMore is true.
LoadMoreNeedsCursor ==
  [][ (Invoked({"loadMore"}) /\ isCursorMode(config) /\ state.cursor = Null)
      => (last'.ev = "dropped" /\ HookUntouched) ]_vars
\* loadMore() was just dropped only because the server had returned
\* hasMore = true together with nextCursor = null.
LoadMoreDroppedWithoutCursor ==
  /\ isCursorMode(config)
  /\ last.ev = "dropped" /\ last.op = "loadMore"
  /\ state.cursor = Null /\ state.hasMore /\ Flags(state) = {}
  /\ ~isLoadingRef /\ inflight = <<>> /\ Len(state.pages) >= 1

\* C19: the state at construction and the state reset() produces are
\* all-empty, with isLoading equal to autoLoad.
FreshState(isLoading) ==
  [items |-> <<>>, pages |-> <<>>, currentPage |-> InitialPage(config),
   cursor |-> Null, hasMore |-> TRUE, isLoading |-> isLoading,
   isLoadingMore |-> FALSE, isRefreshing |-> FALSE, error |-> Null]
FreshStateFollowsAutoLoad ==
  (instance = "hook" /\ (phase = "constructed" \/ last.op = "reset"))
  => state = FreshState(config.autoLoad)

\* C20: a reset() that directly follows a reset() changes nothing: state,
\* guard and outstanding fetches of the hook stay as the first reset() left
\* them, and so does the state of the StateManagerService when reset is
\* called twice with the same initialPage.
ResetTwiceIsResetOnce ==
  [][ /\ (last.op = "reset" /\ last'.op = "reset")
         => UNCHANGED <<state, isLoadingRef, inflight>>
      /\ (last.op = "svcReset" /\ last'.op = "svcReset"
          /\ svc'.currentPage = svc.currentPage)
         => UNCHANGED <<svc, executing>> ]_vars
\* reset() was just called while a loadMore held the guard and two pages
\* were shown: the state is the empty state, the guard is free, the fetch is
\* still outstanding.
ResetWhileLoadingMore ==
  /\ instance = "hook" /\ last.op = "reset"
  /\ state = FreshState(TRUE) /\ ~isLoadingRef
  /\ Len(inflight) = 1 /\ inflight[1].op = "loadMore"
  /\ Len(inflight[1].snap.pages) = 2

\* C21: once the component is unmounted no step changes any state field:
\* not the settlement of a fetch that was outstanding at unmount, and not an
\* operation invoked afterwards.
StateFrozenAfterUnmount ==
  [][ phase = "unmounted" => state' = state ]_vars

\* C22: the settlement of a fetch, success or failure, mounted or not,
\* leaves the guard free; a refresh invoked with the guard free is accepted;
\* and, every fetch eventually settling, a held guard is eventually free.
GuardAlwaysReleased ==
  /\ [][ (last'.ev \in {"resolved", "rejected"} /\ last'.op \in Loads)
         => ~isLoadingRef' ]_vars
  /\ [][ (Invoked({"refresh"}) /\ ~isLoadingRef)
         => (last'.ev = "accepted" /\ isLoadingRef') ]_vars
  /\ (isLoadingRef ~> ~isLoadingRef)
\* A refresh that was outstanding when the component was unmounted failed
\* afterwards and the guard is free.
GuardFreeAfterUnmountedFailure ==
  /\ phase = "unmounted"
  /\ last.ev = "rejected" /\ last.op = "refresh"
  /\ state.isRefreshing
  /\ ~isLoadingRef /\ inflight = <<>>

\* C23: while the operation accepted last on a mounted component has its fetch
\* outstanding, error is null: no earlier operation's error is shown with it.
ErrorNullWhileFetching ==
  (instance = "hook" /\ phase = "mounted" /\ inflight # <<>>)
    => state.error = Null

ThresholdIsClampedFraction ==
  (instance = "list" /\ onEndReachedThreshold # NotRendered)
  => onEndReachedThreshold =
       Num(IF threshold = Undefined THEN DefaultThreshold
           ELSE MathMax(1, MathMin(100, threshold.n)))

\* C26: after a loadMore failure written to a non-empty list the component
\* still returns the list of the loaded items, not the error view.
LoadMoreFailureKeepsListView ==
  (instance = "hook" /\ Written("rejected") /\ last.op = "loadMore"
     /\ state.items # <<>>)
  => View(state) = "list"

\* C27: a fetch that was outstanding when reset() was called settles without
\* altering the state: the step right after a reset() that settles such a
\* fetch, by success or failure, leaves the reset state as it is.
SettlementAfterResetIgnored ==
  [][ (instance = "hook" /\ last.ev = "reset"
         /\ last'.ev \in {"resolved", "rejected"} /\ last'.op \in Loads)
      => state' = state ]_vars

\* C28: on a mounted hook (the mount effect has run) a loading flag is shown
\* only while the guard is held and a fetch is outstanding.
LoadingFlagMeansFetching ==
  (instance = "hook" /\ phase = "mounted" /\ Flags(state) # {})
  => (isLoadingRef /\ inflight # <<>>)

\* C29: on a hook that stays mounted, every fetch settling, isLoading does
\* not stay true for ever: whenever it is true it later becomes false (or
\* the component was unmounted), with no call required of the caller.
IsLoadingEventuallyClears ==
  (phase = "mounted" /\ state.isLoading)
    ~> (~state.isLoading \/ phase = "unmounted")

\* C30: on a mounted hook with canLoadMore true and the guard free, a call
\* of loadMore() is accepted and issues one fetch, in page mode and in cursor
\* mode alike.
CanLoadMoreMeansLoadMoreFetches ==
  [][ (Invoked({"loadMore"}) /\ phase = "mounted"
         /\ canLoadMore(state) /\ ~isLoadingRef)
      => (last'.ev = "accepted" /\ Len(inflight') = Len(inflight) + 1) ]_vars

\* C31: paging through a fixed collection of N items with getPageSlice.
\* After every fetch the number of fetches made equals the number of pages
\* held, and hasMore is true exactly while fewer than N \div pageSize + 1
\* fetches were made; once hasMore is false items is the whole collection in
\* order, and when N is a multiple of pageSize the last fetch returned an
\* empty page. The list reporting the end until then, that state is reached
\* and nothing is fetched afterwards.
SlicePagingTerminates ==
  /\ [](last.ev = "resolved" =>
          LET N == Len(config.collection)
              fetches == last.arg.n + 1
          IN /\ fetches = Len(state.pages)
             /\ state.hasMore <=> (fetches < (N \div config.pageSize) + 1)
             /\ ~state.hasMore =>
                  /\ state.items = config.collection
                  /\ (N % config.pageSize = 0) => (last.res.items = <<>>))
  /\ <>[](~state.hasMore /\ inflight = <<>> /\ ~isLoadingRef)
\* Four items paged by two: the third fetch returned the empty trailing page.
EmptyTrailingPageFetched ==
  /\ config \in SliceConfigs
  /\ Len(config.collection) = 4 /\ config.pageSize = 2
  /\ last.ev = "resolved" /\ last.arg = Num(2) /\ last.res.items = <<>>
  /\ ~state.hasMore /\ state.items = Batch(4)
  /\ state.pages = <<Batch(2), <<3, 4>>, <<>>>>

\* C32: LoadMoreUseCase.execute succeeds right after reset() or
\* setInitialData() was called on the StateManagerService while it awaited
\* loadPage: currentPage is the page index it fetched, the fetched page is
\* stored directly after the pages then held, and hasMore is checkHasMore of
\* the pages stored.
ExecuteStoresFetchedPage ==
  [][ (instance = "usecase" /\ last.op \in {"svcReset", "setInitialData"}
         /\ last'.ev = "resolved" /\ last'.op = "execute")
      => /\ svc'.currentPage = last'.arg.n
         /\ svc'.pages = Append(svc.pages, last'.res.items)
         /\ svc'.hasMore = checkHasMore(config, last'.res.items, svc'.pages)
    ]_vars

\* C33: page mode without a hasMore override, no reset(): when a loadMore of
\* the mounted hook settles, the state holds the items, pages, currentPage,
\* hasMore, isLoadingMore and error that LoadMoreUseCase.execute leaves in a
\* StateManagerService started with the data the loadMore was invoked with
\* and given the same batch or the same rejection.
LoadMoreAgreesWithExecute ==
  (instance = "hook" /\ isMountedRef /\ resets = 0
     /\ config.mode = "page" /\ ~config.hasMore
     /\ last.op = "loadMore" /\ last.ev \in {"resolved", "rejected"})
  => LET start == [items |-> last.snap.items, pages |-> last.snap.pages,
                   currentPage |-> last.snap.currentPage,
                   hasMore |-> last.snap.hasMore,
                   isLoading |-> FALSE, isLoadingMore |-> FALSE,
                   isRefreshing |-> FALSE, error |-> Null]
         awaiting == updateState(updateState(start, [isLoadingMore |-> TRUE]),
                                 [error |-> Null])
         data == last.res.items
         after == IF last.ev = "resolved"
                  THEN addPage(awaiting, data,
                               checkHasMore(config, data,
                                            Append(start.pages, data)))
                  ELSE ExecuteCaught(awaiting, last.rej)
     IN \A f \in {"items", "pages", "currentPage", "hasMore",
                  "isLoadingMore", "error"} : state[f] = after[f]
====
